---------------------------- MODULE Spec2Model ----------------------------
(***************************************************************************)
(* SafeWalk backend (backend/app.py): the grid feature lookup, the point   *)
(* and route scoring handlers and the reload of the model and the table.   *)
(*                                                                         *)
(* Units.  Coordinates are integers counting 0.0001 degree, so the grid    *)
(* step 0.0015 is 15.  Scores are integers counting 0.001 while they are   *)
(* model outputs (raw or clipped) and integers counting 0.01 once they     *)
(* have been rounded to two decimals for the response.                     *)
(***************************************************************************)
EXTENDS Integers, Sequences, FiniteSets, TLC

VARIABLES
    safety_model,   \* global safety_model: "None" or the name of a fitted model
    grid_df,        \* global grid_df: "None" or the name of a feature table
    modelFile,      \* what is at MODEL_PATH
    gridFile,       \* what is at GRID_PATH
    pc,             \* serial server: "idle" or "responded"
    req,            \* the request the serial server handled last
    resp,           \* its response
    run,            \* what the handler did to produce it
    reloader,       \* threaded server: the thread running reload_ml
    worker,         \* threaded server: the thread running a scoring handler
    raw,            \* the raw datasets in DATA_DIR
    build           \* the last run of generate_grid_features.py

vars == <<safety_model, grid_df, modelFile, gridFile, pc, req, resp, run,
          reloader, worker, raw, build>>

---------------------------------------------------------------------------
(* Program constants *)

GRID_STEP == 15

CAP == 1000

SEGMENT_CAP == 100

CLIP_MIN == 1

CLIP_MAX == 10

\* thousandths per score point, and thousandths per 0.01 (round(..., 2))
Unit == 10 * 100
Cent == Unit \div 100

(* Bounds of the model *)

\* short routes have 1..MaxShort points
MaxShort == 3

\* under the threaded server, routes have 1..MaxConc points
MaxConc == 2

\* lengths around the response cap and the sampling cap: cap - Slack .. cap + Slack
Slack == 1

---------------------------------------------------------------------------
(* Numeric helpers *)

\* Python's round() and numpy's rint: num/den to the nearest integer, ties to even
RoundHalfEven(num, den) ==
    LET q == num \div den
        r == num % den
    IN  IF 2 * r < den THEN q
        ELSE IF 2 * r > den THEN q + 1
        ELSE IF q % 2 = 0 THEN q ELSE q + 1

\* np.clip with the ceiling left out
ClipFloorOnly(x) ==
    IF x < CLIP_MIN * Unit THEN CLIP_MIN * Unit ELSE x

\* np.clip(x, 1, 10) on a value in thousandths
Clip(x) ==
    IF x < CLIP_MIN * Unit THEN CLIP_MIN * Unit
    ELSE IF x > CLIP_MAX * Unit THEN CLIP_MAX * Unit
    ELSE x

\* round(x, 2): thousandths to hundredths
Round2(x) == RoundHalfEven(x, Cent)

\* the sum of s[lo..hi], by halves (keeps the evaluation shallow on long routes)
RECURSIVE SumRange(_, _, _)
SumRange(s, lo, hi) ==
    IF lo > hi THEN 0
    ELSE IF lo = hi THEN s[lo]
    ELSE LET mid == (lo + hi) \div 2
         IN  SumRange(s, lo, mid) + SumRange(s, mid + 1, hi)

SumSeq(s) == SumRange(s, 1, Len(s))

\* the mean taken over the truncated list preds_clipped[:100]
RoundedMeanOfShown(s) ==
    LET shown == IF Len(s) > SEGMENT_CAP THEN SEGMENT_CAP ELSE Len(s)
    IN  RoundHalfEven(SumRange(s, 1, shown), Cent * shown)

\* round(float(np.mean(s)), 2): the mean of s (thousandths) in hundredths
RoundedMean(s) == RoundHalfEven(SumSeq(s), Cent * Len(s))

---------------------------------------------------------------------------
(* Fitted models and feature tables *)

NoneVal == "None"

\* LinearRegression: intercept and one coefficient per feature, in thousandths
Coef(m) ==
    IF m = "M1"
    THEN [intercept |-> 5000, incident |-> -400, camera |-> 300, police |-> 1500]
    ELSE [intercept |-> 4817, incident |-> -371, camera |-> 283, police |-> 1437]

Models == {"M1", "M2"}

\* safety_model.predict on one feature row
Predict(m, f) ==
    Coef(m).intercept + Coef(m).incident * f[1] + Coef(m).camera * f[2]
        + Coef(m).police * f[3]

Row(la, lo, inc, cam, pol) ==
    [cell_lat |-> la, cell_lon |-> lo, incident_count |-> inc,
     camera_count |-> cam, police_count |-> pol]

\* grid_features.csv as read by pd.read_csv: rows in file order
Rows(t) ==
    IF t = "T1"
    THEN << Row(129720, 775950, 30, 0, 0),
            Row(129735, 775950, 0, 10, 4),
            Row(400005, -730005, 2, 5, 1) >>
    ELSE << Row(129720, 775950, 1, 2, 0),
            Row(129735, 775965, 40, 1, 0) >>

Tables == {"T1", "T2"}

---------------------------------------------------------------------------
(* Files on disk and load_ml *)

ModelFile(exists, joblibOk, pickleOk, m) ==
    [exists |-> exists, joblib |-> joblibOk, pickle |-> pickleOk, model |-> m]

\* MODEL_PATH: missing, unloadable by both loaders, loadable by joblib, or
\* loadable only by the pickle fallback
ModelFiles ==
    { ModelFile(FALSE, FALSE, FALSE, NoneVal),
      ModelFile(TRUE, FALSE, FALSE, NoneVal),
      ModelFile(TRUE, TRUE, TRUE, "M1"),
      ModelFile(TRUE, FALSE, TRUE, "M2") }

GridFile(exists, readable, t) ==
    [exists |-> exists, readable |-> readable, table |-> t]

\* GRID_PATH: missing, present but pd.read_csv raises, or a readable table
GridFiles ==
    { GridFile(FALSE, FALSE, NoneVal),
      GridFile(TRUE, FALSE, NoneVal),
      GridFile(TRUE, TRUE, "T1"),
      GridFile(TRUE, TRUE, "T2") }

\* lines 41-63: the value load_ml assigns to safety_model from the model file
LoadModelPart(mf) ==
    IF mf.exists
    THEN IF mf.joblib THEN mf.model
         ELSE IF mf.pickle THEN mf.model
         ELSE NoneVal
    ELSE NoneVal

\* lines 65-76: the grid half of load_ml, given the model it has just assigned
\* and the table held before; a raising read_csv clears the model and leaves
\* grid_df alone
LoadGridPart(model, oldGrid, gf) ==
    IF gf.exists
    THEN IF gf.readable
         THEN [model |-> model, grid |-> gf.table]
         ELSE [model |-> NoneVal, grid |-> oldGrid]
    ELSE [model |-> model, grid |-> NoneVal]

load_ml(oldGrid, mf, gf) == LoadGridPart(LoadModelPart(mf), oldGrid, gf)

---------------------------------------------------------------------------
(* The offline feature build, generate_grid_features.py *)

\* DATA_DIR: whether incident.xlsx, police.xlsx and surveillance.csv can be
\* read, and what surveillance.csv holds: "S1" or "S2" (records with lat, lon
\* and cctv_count) or "nocols" (readable, but without a lat column)
Raw(incident, police, surv, data) ==
    [incident |-> incident, police |-> police, surv |-> surv, data |-> data]

SurvData == {"S1", "S2", "nocols"}

RawData ==
    { Raw(i, p, s, d) : i \in BOOLEAN, p \in BOOLEAN, s \in BOOLEAN, d \in SurvData }

\* lines 33-93: the table the surveillance records aggregate to
TableOf(data) == IF data = "S1" THEN "T1" ELSE "T2"

\* the three reads of lines 25-31 all succeed
AllRead(r) == r.incident /\ r.police /\ r.surv

Built(file, wrote, crashed) == [file |-> file, wrote |-> wrote, crashed |-> crashed]

\* the build going on when surveillance.csv alone could be read
generate_surv_only(r, gf) ==
    IF ~r.surv THEN Built(gf, FALSE, FALSE)
    ELSE IF r.data = "nocols" THEN Built(gf, FALSE, TRUE)
    ELSE Built(GridFile(TRUE, TRUE, TableOf(r.data)), TRUE, FALSE)

\* generate_grid_features, lines 21-99, run with raw datasets r while GRID_PATH
\* holds gf: what GRID_PATH holds afterwards, whether to_csv ran, and whether
\* the run died on an exception
generate_grid_features(r, gf) ==
    IF ~AllRead(r)
    THEN \* lines 29-31: except -> print, return
         Built(gf, FALSE, FALSE)
    ELSE IF r.data = "nocols"
    THEN \* line 41: surv["lat"] raises KeyError, unhandled
         Built(gf, FALSE, TRUE)
    ELSE \* line 96: grid_df.to_csv(GRID_PATH)
         Built(GridFile(TRUE, TRUE, TableOf(r.data)), TRUE, FALSE)

\* the record of a run: seq alternates from run to run, read is the raw
\* datasets the run found, before is what GRID_PATH held when it started
BuildRecord(seq, ran, read, before, wrote, crashed) ==
    [seq |-> seq, ran |-> ran, read |-> read, before |-> before,
     wrote |-> wrote, crashed |-> crashed]

NoBuild ==
    BuildRecord(0, FALSE, Raw(FALSE, FALSE, FALSE, "S1"),
                GridFile(FALSE, FALSE, NoneVal), FALSE, FALSE)

---------------------------------------------------------------------------
(* Grid index *)

make_cell(lat, lng) ==
    << RoundHalfEven(lat, GRID_STEP) * GRID_STEP,
       RoundHalfEven(lng, GRID_STEP) * GRID_STEP >>

ZeroFeatures == <<0, 0, 0>>

\* the lookup matching the raw coordinate instead of its cell
LookupRaw(t, lat, lon) ==
    LET row == SelectSeq(Rows(t), LAMBDA r : r.cell_lat = lat /\ r.cell_lon = lon)
    IN  IF Len(row) = 0 THEN ZeroFeatures
        ELSE << row[1].incident_count, row[1].camera_count, row[1].police_count >>

\* the lookup without the row.empty test: a miss takes the table's first row
LookupNoFallback(t, lat, lon) ==
    LET cell == make_cell(lat, lon)
        row  == SelectSeq(Rows(t),
                    LAMBDA r : r.cell_lat = cell[1] /\ r.cell_lon = cell[2])
        r1   == IF Len(row) = 0 THEN Rows(t)[1] ELSE row[1]
    IN  << r1.incident_count, r1.camera_count, r1.police_count >>

\* lines 97-111: the lookup in a loaded table
LookupCell(t, lat, lon) ==
    LET cell == make_cell(lat, lon)
        row  == SelectSeq(Rows(t),
                    LAMBDA r : r.cell_lat = cell[1] /\ r.cell_lon = cell[2])
    IN  IF Len(row) = 0 THEN ZeroFeatures
        ELSE << row[1].incident_count, row[1].camera_count, row[1].police_count >>

\* get_cell_features with grid_df = t
get_cell_features(t, lat, lon) ==
    IF t = NoneVal THEN ZeroFeatures ELSE LookupCell(t, lat, lon)

---------------------------------------------------------------------------
(* Request payloads (request.json) *)

\* one element of coords: a [lat, lng] pair of numbers ("pair"), a bare number
\* ("scalar": p[0] raises TypeError), a one-element list ("short": p[1] raises
\* IndexError) or a pair of strings ("text": lat / GRID_STEP raises TypeError)
Elem(t, lat, lng) == [t |-> t, lat |-> lat, lng |-> lng]

BadElemKinds == {"scalar", "short", "text"}

\* the value of data.get("coords"): absent, null, a string, a number, an
\* object or a list; n is the string's length, the number, or the object's size
Coords(t, n, items) == [t |-> t, n |-> n, items |-> items]

\* Python truthiness of that value ("if not coords")
Truthy(c) ==
    CASE c.t \in {"absent", "null"} -> FALSE
      [] c.t = "list" -> Len(c.items) # 0
      [] OTHER -> c.n # 0

\* the body of a score-route request: JSON null, or an object
RouteBody(t, c) == [t |-> t, coords |-> c]

\* lat or lng of a safety-score body: absent, null, a number or a string
Val(t, v) == [t |-> t, v |-> v]

IsNone(x) == x.t \in {"absent", "null"}

\* the body of a safety-score request: JSON null, or an object
PointBody(t, lat, lng) == [t |-> t, lat |-> lat, lng |-> lng]

---------------------------------------------------------------------------
(* Responses and the record of what a handler did *)

Response(status, score, segments) ==
    [status |-> status, score |-> score, segments |-> segments]

\* sampled: coords after down-sampling; X: the feature rows looked up;
\* preds: the model's raw outputs; lookups, predicts: calls completed
Work(sampled, X, preds, lookups, predicts) ==
    [sampled |-> sampled, X |-> X, preds |-> preds,
     lookups |-> lookups, predicts |-> predicts]

NoWork == Work(<<>>, <<>>, <<>>, 0, 0)

Outcome(r, w) == [resp |-> r, run |-> w]

Error(status) == Outcome(Response(status, 0, <<>>), NoWork)

---------------------------------------------------------------------------
(* Route sampling, lines 266-268 *)

\* a stride that starts at the step-th element instead of the first
SliceFromStep(s, step) ==
    [j \in 1..(Len(s) \div step) |-> s[j * step]]

\* Python's s[::step]: the elements at 0-based indices 0, step, 2*step, ...
Slice(s, step) ==
    [j \in 1..((Len(s) - 1) \div step + 1) |-> s[(j - 1) * step + 1]]

Sample(coords) ==
    IF Len(coords) > CAP
    THEN Slice(coords, Len(coords) \div CAP)
    ELSE coords

---------------------------------------------------------------------------
(* Handlers as functions of the globals and the request body *)

\* the smallest index of s whose element is not a pair of numbers, 0 if none
FirstBad(s) ==
    LET bad == {i \in 1..Len(s) : s[i].t # "pair"}
    IN  IF bad = {} THEN 0 ELSE CHOOSE i \in bad : \A j \in bad : i <= j

\* the segments without the [:100] truncation
SegmentsAll(preds_clipped) ==
    [i \in 1..Len(preds_clipped) |-> Round2(preds_clipped[i])]

\* line 283: [round(float(x), 2) for x in preds_clipped[:100]]
Segments(preds_clipped) ==
    LET shown == IF Len(preds_clipped) > SEGMENT_CAP
                 THEN SEGMENT_CAP ELSE Len(preds_clipped)
    IN  [i \in 1..shown |-> Round2(preds_clipped[i])]

\* lines 275-284: predict, clip, mean and the reply, given the feature rows X
RouteResult(model, sampled, X) ==
    LET preds == [i \in 1..Len(X) |-> Predict(model, X[i])]
        preds_clipped == [i \in 1..Len(preds) |-> Clip(preds[i])]
    IN  IF Len(X) = 0
        THEN Outcome(Response(400, 0, <<>>), Work(sampled, X, <<>>, 0, 0))
        ELSE Outcome(
               Response(200, RoundedMean(preds_clipped), Segments(preds_clipped)),
               Work(sampled, X, preds, Len(X), 1))

\* lines 264-289 of score_route: the try block on a non-empty list
ScoreRouteTry(model, table, items) ==
    LET sampled == Sample(items)
        bad     == FirstBad(sampled)
    IN  IF bad # 0
        THEN \* the list comprehension raises at element bad: except -> 500
             Outcome(Response(500, 0, <<>>),
                     Work(sampled, <<>>, <<>>, bad - 1, 0))
        ELSE RouteResult(model, sampled,
                 [i \in 1..Len(sampled) |->
                     get_cell_features(table, sampled[i].lat, sampled[i].lng)])

\* score_route answering 400 instead of 500 while the model is not loaded
score_route_400(model, table, data) ==
    IF model = NoneVal \/ table = NoneVal THEN Error(400)
    ELSE LET coords == IF data.t = "dict" THEN data.coords
                       ELSE Coords("absent", 0, <<>>)
         IN  IF ~Truthy(coords) THEN Error(400)
             ELSE IF coords.t # "list" \/ Len(coords.items) = 0 THEN Error(400)
             ELSE ScoreRouteTry(model, table, coords.items)

\* score_route, lines 248-289
score_route(model, table, data) ==
    IF model = NoneVal THEN Error(500)
    ELSE IF table = NoneVal THEN Error(500)
    ELSE LET coords == IF data.t = "dict" THEN data.coords
                       ELSE Coords("absent", 0, <<>>)
         IN  IF ~Truthy(coords) THEN Error(400)
             ELSE IF coords.t # "list" \/ Len(coords.items) = 0 THEN Error(400)
             ELSE ScoreRouteTry(model, table, coords.items)

\* lines 199-202: predict, clip, round and the reply, given the feature row f
PointResult(model, f) ==
    LET score == Predict(model, f)
    IN  Outcome(Response(200, Round2(Clip(score)), <<>>),
                Work(<<>>, <<f>>, <<score>>, 1, 1))

\* safety_score_point, lines 185-202
safety_score_point(model, table, data) ==
    IF model = NoneVal \/ table = NoneVal THEN Error(500)
    ELSE IF data.t # "dict"
    THEN \* data is None: data.get raises AttributeError, unhandled -> 500
         Error(500)
    ELSE IF IsNone(data.lat) \/ IsNone(data.lng) THEN Error(400)
    ELSE IF data.lat.t # "num" \/ data.lng.t # "num"
    THEN \* make_cell raises TypeError on a string, unhandled -> 500
         Error(500)
    ELSE PointResult(model, get_cell_features(table, data.lat.v, data.lng.v))

\* reload_ml, lines 342-349, after load_ml has run
ReloadReply(model, table) ==
    IF model = NoneVal \/ table = NoneVal
    THEN Response(500, 0, <<>>)
    ELSE Response(200, 0, <<>>)

---------------------------------------------------------------------------
(* The requests the clients send *)

\* a polyline of n points from start, advancing by delta per point
Walk(start, delta, n) ==
    [i \in 1..n |->
        Elem("pair", start[1] + (i - 1) * delta[1], start[2] + (i - 1) * delta[2])]

Starts == { <<129716, 775946>>, <<400008, -730012>> }

Deltas == { <<0, 0>>, <<15, 0>>, <<7, 8>> }

ShortLens == 1..MaxShort

MidLens == {SEGMENT_CAP - Slack, SEGMENT_CAP, SEGMENT_CAP + Slack}

LongLens == {CAP, CAP + Slack, 2 * CAP - Slack, 2 * CAP, 2 * CAP + Slack}

GoodRoutes ==
    {Walk(s, d, n) : s \in Starts, d \in Deltas, n \in ShortLens}
    \cup {Walk(<<129716, 775946>>, <<1, 1>>, n) : n \in MidLens \cup LongLens}

\* short routes with one element that is not a [lat, lng] pair of numbers
BadRoutes ==
    UNION { { [Walk(<<129716, 775946>>, <<15, 0>>, n) EXCEPT ![k] = Elem(t, 0, 0)]
                : k \in 1..n, t \in BadElemKinds }
            : n \in ShortLens }

NotALists ==
    { Coords("absent", 0, <<>>), Coords("null", 0, <<>>),
      Coords("text", 0, <<>>), Coords("text", 3, <<>>),
      Coords("number", 0, <<>>), Coords("number", 5, <<>>),
      Coords("object", 0, <<>>), Coords("object", 1, <<>>),
      Coords("list", 0, <<>>) }

RouteBodies ==
    { RouteBody("null", Coords("absent", 0, <<>>)) }
    \cup { RouteBody("dict", c) : c \in NotALists }
    \cup { RouteBody("dict", Coords("list", Len(r), r)) : r \in GoodRoutes \cup BadRoutes }

PointLats == {129716, 129720, 129727, 129728, 400005, 400008}

PointLngs == {775946, 775950, 775957, -730005, -730012}

NoVals == { Val("absent", 0), Val("null", 0) }

PointBodies ==
    { PointBody("null", Val("absent", 0), Val("absent", 0)) }
    \cup { PointBody("dict", la, lo) :
              la \in NoVals \cup {Val("text", 0)} \cup {Val("num", v) : v \in PointLats},
              lo \in NoVals \cup {Val("text", 0)} \cup {Val("num", v) : v \in PointLngs} }

---------------------------------------------------------------------------
(* The server handling one request at a time *)

Request(kind, body) == [kind |-> kind, body |-> body]

NoRequest == Request("none", <<>>)

NoResponse == Response(0, 0, <<>>)

\* the reload thread: where it is in reload_ml, the (model, table) pair it
\* found when it started, and the status it replied with last
IdleReloader == [pc |-> "idle", pre |-> <<NoneVal, NoneVal>>, status |-> 0]

\* the scoring thread: where it is in its handler and the handler's locals.
\* log has one entry per get_cell_features call: the grid_df it read at line
\* 94 (first) and at lines 98-99 (second, "unread" when line 95 returned).
\* model is the safety_model read by predict.  allowed is the set of
\* (model, table) pairs that were in place when the request began or that a
\* load_ml finishing during the request left in place.
IdleWorker ==
    [pc |-> "idle", kind |-> "none", coords |-> <<>>, i |-> 0, first |-> NoneVal,
     X |-> <<>>, log |-> <<>>, model |-> NoneVal, allowed |-> {},
     resp |-> NoResponse]

\* module import: safety_model = grid_df = None, then load_ml() (line 80)
Init ==
    /\ modelFile \in ModelFiles
    /\ gridFile \in GridFiles
    /\ safety_model = load_ml(NoneVal, modelFile, gridFile).model
    /\ grid_df = load_ml(NoneVal, modelFile, gridFile).grid
    /\ pc = "idle"
    /\ req = NoRequest
    /\ resp = NoResponse
    /\ run = NoWork
    /\ reloader = IdleReloader
    /\ worker = IdleWorker
    /\ raw = Raw(TRUE, TRUE, TRUE, "S1")
    /\ build = NoBuild

\* POST /api/safety-score
SafetyScorePoint ==
    /\ pc = "idle"
    /\ \E data \in PointBodies :
          LET out == safety_score_point(safety_model, grid_df, data)
          IN  /\ req' = Request("point", data)
              /\ resp' = out.resp
              /\ run' = out.run
    /\ pc' = "responded"
    /\ UNCHANGED <<safety_model, grid_df, modelFile, gridFile, reloader, worker>>
    /\ UNCHANGED <<raw, build>>

\* POST /api/score-route
ScoreRoute ==
    /\ pc = "idle"
    /\ \E data \in RouteBodies :
          LET out == score_route(safety_model, grid_df, data)
          IN  /\ req' = Request("route", data)
              /\ resp' = out.resp
              /\ run' = out.run
    /\ pc' = "responded"
    /\ UNCHANGED <<safety_model, grid_df, modelFile, gridFile, reloader, worker>>
    /\ UNCHANGED <<raw, build>>

\* a reload that keeps the model it had whenever load_ml ends without one
ReloadMlKeepsModel ==
    /\ pc = "idle"
    /\ LET r == load_ml(grid_df, modelFile, gridFile)
           kept == IF r.model = NoneVal THEN safety_model ELSE r.model
       IN  /\ safety_model' = kept
           /\ grid_df' = r.grid
           /\ resp' = ReloadReply(kept, r.grid)
    /\ req' = Request("reload", <<>>)
    /\ run' = NoWork
    /\ pc' = "responded"
    /\ UNCHANGED <<modelFile, gridFile, reloader, worker>>
    /\ UNCHANGED <<raw, build>>

\* POST /api/reload-ml: load_ml(), then the reply
ReloadMl ==
    /\ pc = "idle"
    /\ LET r == load_ml(grid_df, modelFile, gridFile)
       IN  /\ safety_model' = r.model
           /\ grid_df' = r.grid
           /\ resp' = ReloadReply(r.model, r.grid)
    /\ req' = Request("reload", <<>>)
    /\ run' = NoWork
    /\ pc' = "responded"
    /\ UNCHANGED <<modelFile, gridFile, reloader, worker>>
    /\ UNCHANGED <<raw, build>>

\* the response leaves; the server waits for the next request
Respond ==
    /\ pc = "responded"
    /\ pc' = "idle"
    /\ req' = NoRequest
    /\ resp' = NoResponse
    /\ run' = NoWork
    /\ UNCHANGED <<safety_model, grid_df, modelFile, gridFile, reloader, worker>>
    /\ UNCHANGED <<raw, build>>

\* the operator replaces, removes or damages safety_model.pkl
ModelFileChanges ==
    /\ pc = "idle"
    /\ modelFile' \in ModelFiles \ {modelFile}
    /\ UNCHANGED <<safety_model, grid_df, gridFile, pc, req, resp, run,
                   reloader, worker>>
    /\ UNCHANGED <<raw, build>>

\* the operator replaces, removes or damages grid_features.csv
GridFileChanges ==
    /\ pc = "idle"
    /\ gridFile' \in GridFiles \ {gridFile}
    /\ UNCHANGED <<safety_model, grid_df, modelFile, pc, req, resp, run,
                   reloader, worker>>
    /\ UNCHANGED <<raw, build>>

Next ==
    \/ ScoreRoute
    \/ SafetyScorePoint
    \/ ReloadMl
    \/ Respond
    \/ ModelFileChanges
    \/ GridFileChanges

Spec == Init /\ [][Next]_vars

---------------------------------------------------------------------------
(* The threaded server (app.run serves each request on its own thread):   *)
(* reload_ml and one scoring handler interleave at every read and write   *)
(* of the globals.  The three reads of grid_df on lines 98-99 are taken   *)
(* as one step.                                                           *)

ConcRequests ==
    { [kind |-> "point", coords |-> Walk(s, <<0, 0>>, 1)] : s \in Starts }
    \cup { [kind |-> "route", coords |-> Walk(<<129731, 775946>>, <<-15, 0>>, n)]
              : n \in 1..MaxConc }

LogEntry(first, second, lat, lon, out, raised) ==
    [first |-> first, second |-> second, lat |-> lat, lon |-> lon,
     out |-> out, raised |-> raised]

\* a scoring request arrives
WStart ==
    /\ worker.pc = "idle"
    /\ \E r \in ConcRequests :
          worker' = [IdleWorker EXCEPT
                        !.pc = "check_model", !.kind = r.kind, !.coords = r.coords,
                        !.allowed = { IF reloader.pc \in {"model", "grid"}
                                      THEN reloader.pre
                                      ELSE <<safety_model, grid_df>> }]
    /\ UNCHANGED <<safety_model, grid_df, modelFile, gridFile, pc, req, resp, run,
                   reloader>>
    /\ UNCHANGED <<raw, build>>

\* line 249 (line 186, left operand): safety_model is None
WCheckModel ==
    /\ worker.pc = "check_model"
    /\ worker' = IF safety_model = NoneVal
                 THEN [worker EXCEPT !.pc = "done", !.resp = Response(500, 0, <<>>)]
                 ELSE [worker EXCEPT !.pc = "check_grid"]
    /\ UNCHANGED <<safety_model, grid_df, modelFile, gridFile, pc, req, resp, run,
                   reloader>>
    /\ UNCHANGED <<raw, build>>

\* line 252 (line 186, right operand): grid_df is None
WCheckGrid ==
    /\ worker.pc = "check_grid"
    /\ worker' = IF grid_df = NoneVal
                 THEN [worker EXCEPT !.pc = "done", !.resp = Response(500, 0, <<>>)]
                 ELSE [worker EXCEPT !.pc = "gcf_check", !.i = 1]
    /\ UNCHANGED <<safety_model, grid_df, modelFile, gridFile, pc, req, resp, run,
                   reloader>>
    /\ UNCHANGED <<raw, build>>

\* the worker after get_cell_features returned f for point i
Advance(w, f, entry) ==
    [w EXCEPT !.X = Append(@, f), !.log = Append(@, entry),
              !.i = @ + 1,
              !.pc = IF w.i = Len(w.coords) THEN "predict" ELSE "gcf_check"]

\* get_cell_features, line 94: grid_df is None -> the zero vector
WGcfCheck ==
    /\ worker.pc = "gcf_check"
    /\ LET p == worker.coords[worker.i]
           f == get_cell_features(grid_df, p.lat, p.lng)
       IN  worker' =
             IF grid_df = NoneVal
             THEN Advance(worker, f,
                          LogEntry(NoneVal, "unread", p.lat, p.lng, f, FALSE))
             ELSE [worker EXCEPT !.pc = "gcf_lookup", !.first = grid_df]
    /\ UNCHANGED <<safety_model, grid_df, modelFile, gridFile, pc, req, resp, run,
                   reloader>>
    /\ UNCHANGED <<raw, build>>

\* get_cell_features, lines 97-111: grid_df is read again for the lookup;
\* subscripting None raises TypeError (route: except -> 500; point: unhandled -> 500)
WGcfLookup ==
    /\ worker.pc = "gcf_lookup"
    /\ LET p == worker.coords[worker.i]
       IN  worker' =
             IF grid_df = NoneVal
             THEN [worker EXCEPT
                     !.pc = "done", !.resp = Response(500, 0, <<>>),
                     !.log = Append(@, LogEntry(worker.first, NoneVal, p.lat, p.lng,
                                                <<>>, TRUE))]
             ELSE LET f == LookupCell(grid_df, p.lat, p.lng)
                  IN  Advance(worker, f,
                              LogEntry(worker.first, grid_df, p.lat, p.lng, f, FALSE))
    /\ UNCHANGED <<safety_model, grid_df, modelFile, gridFile, pc, req, resp, run,
                   reloader>>
    /\ UNCHANGED <<raw, build>>

\* line 199 / line 275: safety_model.predict; on None AttributeError -> 500
WPredict ==
    /\ worker.pc = "predict"
    /\ worker' =
          IF safety_model = NoneVal
          THEN [worker EXCEPT !.pc = "done", !.resp = Response(500, 0, <<>>)]
          ELSE [worker EXCEPT
                  !.pc = "done", !.model = safety_model,
                  !.resp = IF worker.kind = "point"
                           THEN PointResult(safety_model, worker.X[1]).resp
                           ELSE RouteResult(safety_model, worker.coords, worker.X).resp]
    /\ UNCHANGED <<safety_model, grid_df, modelFile, gridFile, pc, req, resp, run,
                   reloader>>
    /\ UNCHANGED <<raw, build>>

\* the response leaves
WFinish ==
    /\ worker.pc = "done"
    /\ worker' = IdleWorker
    /\ UNCHANGED <<safety_model, grid_df, modelFile, gridFile, pc, req, resp, run,
                   reloader>>
    /\ UNCHANGED <<raw, build>>

\* POST /api/reload-ml arrives
RStart ==
    /\ reloader.pc = "idle"
    /\ reloader' = [pc |-> "model", pre |-> <<safety_model, grid_df>>, status |-> 0]
    /\ UNCHANGED <<safety_model, grid_df, modelFile, gridFile, pc, req, resp, run,
                   worker>>
    /\ UNCHANGED <<raw, build>>

\* load_ml, lines 41-63: safety_model is assigned
RLoadModel ==
    /\ reloader.pc = "model"
    /\ safety_model' = LoadModelPart(modelFile)
    /\ reloader' = [reloader EXCEPT !.pc = "grid"]
    /\ UNCHANGED <<grid_df, modelFile, gridFile, pc, req, resp, run, worker>>
    /\ UNCHANGED <<raw, build>>

\* load_ml, lines 65-76: grid_df is assigned, or read_csv raises and
\* safety_model is cleared; load_ml returns
RLoadGrid ==
    /\ reloader.pc = "grid"
    /\ LET r == LoadGridPart(safety_model, grid_df, gridFile)
       IN  /\ safety_model' = r.model
           /\ grid_df' = r.grid
           /\ worker' = IF worker.pc \in {"idle", "done"} THEN worker
                        ELSE [worker EXCEPT !.allowed = @ \cup {<<r.model, r.grid>>}]
    /\ reloader' = [reloader EXCEPT !.pc = "reply"]
    /\ UNCHANGED <<modelFile, gridFile, pc, req, resp, run>>
    /\ UNCHANGED <<raw, build>>

\* reload_ml, lines 344-349
RReply ==
    /\ reloader.pc = "reply"
    /\ reloader' = [IdleReloader EXCEPT
                       !.status = ReloadReply(safety_model, grid_df).status]
    /\ UNCHANGED <<safety_model, grid_df, modelFile, gridFile, pc, req, resp, run,
                   worker>>
    /\ UNCHANGED <<raw, build>>

\* between requests the operator replaces, removes or damages the files
FilesChange ==
    /\ reloader.pc = "idle"
    /\ worker.pc = "idle"
    /\ \E mf \in ModelFiles, gf \in GridFiles :
          /\ <<mf, gf>> # <<modelFile, gridFile>>
          /\ modelFile' = mf
          /\ gridFile' = gf
    /\ UNCHANGED <<safety_model, grid_df, pc, req, resp, run, reloader, worker>>
    /\ UNCHANGED <<raw, build>>

NextConc ==
    \/ WStart
    \/ WCheckModel
    \/ WCheckGrid
    \/ WGcfCheck
    \/ WGcfLookup
    \/ WPredict
    \/ WFinish
    \/ RStart
    \/ RLoadModel
    \/ RLoadGrid
    \/ RReply
    \/ FilesChange

SpecConc == Init /\ [][NextConc]_vars

---------------------------------------------------------------------------
(* The operator's side: the raw datasets change and the build is run *)

\* python generate_grid_features.py
GenerateGridFeatures ==
    /\ LET out == generate_grid_features(raw, gridFile)
       IN  /\ gridFile' = out.file
           /\ build' = BuildRecord(1 - build.seq, TRUE, raw, gridFile,
                                   out.wrote, out.crashed)
    /\ UNCHANGED <<safety_model, grid_df, modelFile, pc, req, resp, run,
                   reloader, worker, raw>>

\* a raw dataset is added, removed, damaged or replaced
RawDataChanges ==
    /\ raw' \in RawData \ {raw}
    /\ UNCHANGED <<safety_model, grid_df, modelFile, gridFile, pc, req, resp, run,
                   reloader, worker, build>>

NextOffline ==
    \/ GenerateGridFeatures
    \/ RawDataChanges
    \/ GridFileChanges

SpecOffline == Init /\ [][NextOffline]_vars

---------------------------------------------------------------------------
(* The claims *)

\* the serial server has just handled a request of this kind
Handled(kind) == pc = "responded" /\ req.kind = kind

HandledScoring == pc = "responded" /\ req.kind \in {"point", "route"}

ModelAndTableLoaded == safety_model # NoneVal /\ grid_df # NoneVal

\* hundredths per score point
PerPoint == Unit \div Cent

\* x held to [1, 10], in thousandths
Clamp(x) ==
    LET lo == CLIP_MIN * Unit
        hi == CLIP_MAX * Unit
        up == IF x > lo THEN x ELSE lo
    IN  IF up < hi THEN up ELSE hi

Abs(x) == IF x < 0 THEN -x ELSE x

\* h (hundredths) is a hundredth nearest to num/den thousandths
NearestHundredth(h, num, den) == 2 * Abs(h * Cent * den - num) <= Cent * den

\* the request handled last carries well-formed coordinates
ValidRequest ==
    IF req.kind = "point"
    THEN req.body.t = "dict" /\ req.body.lat.t = "num" /\ req.body.lng.t = "num"
    ELSE /\ req.body.t = "dict"
         /\ req.body.coords.t = "list"
         /\ Len(req.body.coords.items) > 0
         /\ \A i \in 1..Len(req.body.coords.items) :
                req.body.coords.items[i].t = "pair"

\* the request handled last has missing, empty or malformed coordinates
InvalidRequest ==
    IF req.kind = "point"
    THEN req.body.t # "dict" \/ IsNone(req.body.lat) \/ IsNone(req.body.lng)
    ELSE \/ req.body.t # "dict"
         \/ req.body.coords.t # "list"
         \/ Len(req.body.coords.items) = 0
         \/ \E i \in 1..Len(req.body.coords.items) :
                req.body.coords.items[i].t # "pair"

\* the sum of the clipped model outputs of the route handled last
ClippedSum == SumSeq([i \in 1..Len(run.preds) |-> Clamp(run.preds[i])])

(* C1: a scoring request that overlaps a reload computes its result with   *)
(* one (model, table) pair, the one in place before the reload or the one  *)
(* the reload leaves in place: every table it looked features up in and    *)
(* the model it predicted with belong to the same such pair.               *)
C1_RequestUsesOnePair ==
    worker.pc = "done" /\ worker.resp.status = 200 =>
        \E p \in worker.allowed :
            /\ worker.model = p[1]
            /\ \A k \in 1..Len(worker.log) :
                  /\ worker.log[k].first = p[2]
                  /\ worker.log[k].second \in {p[2], "unread"}

(* C2: whatever the length of the route, score_route looks features up    *)
(* for at most CAP coordinates.                                            *)
C2_ScoresAtMostCap ==
    Handled("route") => run.lookups <= CAP

\* C3, the states: what a scoring request is answered with
C3_State ==
    /\ HandledScoring /\ safety_model = NoneVal => resp.status = 500
    /\ HandledScoring /\ ModelAndTableLoaded /\ ValidRequest => resp.status = 200

\* C3, the steps: how safety_model leaves None
C3_Step ==
    safety_model = NoneVal /\ safety_model' # NoneVal =>
        /\ req'.kind = "reload"
        /\ LoadModelPart(modelFile) = safety_model'

(* C3: while safety_model is None every point and route request is         *)
(* answered 500 whatever its payload; safety_model leaves None only by a   *)
(* reload whose model load succeeds; with the model and the table loaded   *)
(* well-formed scoring requests are answered 200.                          *)
C3_UnavailableUntilReload == []C3_State /\ [][C3_Step]_vars

C3_Witness ==
    /\ Handled("route")
    /\ safety_model = NoneVal
    /\ grid_df # NoneVal
    /\ ValidRequest
    /\ resp.status = 500

(* C4: with the model and the table loaded, a scoring request whose        *)
(* coordinates are missing, empty or malformed is answered 400, before any *)
(* feature lookup or prediction.                                           *)
C4_InvalidInputIs400 ==
    HandledScoring /\ ModelAndTableLoaded /\ InvalidRequest =>
        resp.status = 400 /\ run.lookups = 0 /\ run.predicts = 0

(* C5: the safety_score of a successful point request lies in [1, 10]; a   *)
(* raw model output below 1 is returned as 1, one above 10 as 10.          *)
C5_PointScoreClipped ==
    Handled("point") /\ resp.status = 200 =>
        /\ resp.score >= CLIP_MIN * PerPoint
        /\ resp.score <= CLIP_MAX * PerPoint
        /\ run.preds[1] < CLIP_MIN * Unit => resp.score = CLIP_MIN * PerPoint
        /\ run.preds[1] > CLIP_MAX * Unit => resp.score = CLIP_MAX * PerPoint

C5_Witness ==
    Handled("point") /\ resp.status = 200 /\ run.preds[1] > CLIP_MAX * Unit

(* C6, as claimed: the score of a successful route request equals the      *)
(* arithmetic mean of the clipped per-point model outputs over all sampled *)
(* points, and lies in [1, 10].                                            *)
C6_ScoreIsMeanOfClipped ==
    Handled("route") /\ resp.status = 200 =>
        /\ Len(run.preds) = Len(run.sampled)
        /\ resp.score * Cent * Len(run.preds) = ClippedSum
        /\ resp.score >= CLIP_MIN * PerPoint
        /\ resp.score <= CLIP_MAX * PerPoint

(* C6, amended: the score of a successful route request is the arithmetic  *)
(* mean of the clipped per-point model outputs over all sampled points,    *)
(* rounded to two decimals, and lies in [1, 10].                           *)
C6_ScoreIsRoundedMeanOfClipped ==
    Handled("route") /\ resp.status = 200 =>
        /\ Len(run.preds) = Len(run.sampled)
        /\ NearestHundredth(resp.score, ClippedSum, Len(run.preds))
        /\ resp.score >= CLIP_MIN * PerPoint
        /\ resp.score <= CLIP_MAX * PerPoint

C6_Witness ==
    /\ Handled("route")
    /\ resp.status = 200
    /\ Len(run.preds) > SEGMENT_CAP
    /\ \E i \in 1..Len(run.preds) : run.preds[i] < CLIP_MIN * Unit
    /\ \E i \in 1..Len(run.preds) : run.preds[i] > CLIP_MIN * Unit

(* C7, as claimed: with m points scored, segments has min(m, 100) entries, *)
(* entry i is the clipped score of the i-th sampled point, and the score   *)
(* is still the (rounded) mean over all m points.                          *)
C7_SegmentsAreClippedScores ==
    Handled("route") /\ resp.status = 200 =>
        LET m == Len(run.preds)
        IN  /\ m = Len(run.sampled)
            /\ Len(resp.segments) = IF m < SEGMENT_CAP THEN m ELSE SEGMENT_CAP
            /\ \A i \in 1..Len(resp.segments) :
                  resp.segments[i] * Cent = Clamp(run.preds[i])
            /\ NearestHundredth(resp.score, ClippedSum, m)

(* C7, amended: with m points scored, segments has min(m, 100) entries,    *)
(* entry i is the clipped score of the i-th sampled point rounded to two   *)
(* decimals, and the score is still the (rounded) mean over all m points.  *)
C7_SegmentsAreRoundedClippedScores ==
    Handled("route") /\ resp.status = 200 =>
        LET m == Len(run.preds)
        IN  /\ m = Len(run.sampled)
            /\ Len(resp.segments) = IF m < SEGMENT_CAP THEN m ELSE SEGMENT_CAP
            /\ \A i \in 1..Len(resp.segments) :
                  NearestHundredth(resp.segments[i], Clamp(run.preds[i]), 1)
            /\ NearestHundredth(resp.score, ClippedSum, m)

C7_Witness ==
    /\ Handled("route")
    /\ resp.status = 200
    /\ Len(run.preds) > SEGMENT_CAP
    /\ Len(resp.segments) = SEGMENT_CAP

\* the table t has no row for the cell of (lat, lon)
NoRowFor(t, lat, lon) ==
    \A k \in 1..Len(Rows(t)) :
        <<Rows(t)[k].cell_lat, Rows(t)[k].cell_lon>> # make_cell(lat, lon)

(* C8: get_cell_features returns (0, 0, 0) and raises nothing when the     *)
(* loaded table has no row for the coordinate's cell, and when no table is *)
(* loaded (grid_df is None when the call reads it).                        *)
C8_MissGivesZeroVector ==
    \A k \in 1..Len(worker.log) :
        LET e == worker.log[k]
        IN  /\ e.first = NoneVal => ~e.raised /\ e.out = <<0, 0, 0>>
            /\ e.first # NoneVal /\ e.second = e.first
                  /\ NoRowFor(e.first, e.lat, e.lon)
                  => ~e.raised /\ e.out = <<0, 0, 0>>

C8_Witness ==
    /\ Len(worker.log) = 2
    /\ worker.log[1].first # NoneVal
    /\ worker.log[1].second = worker.log[1].first
    /\ NoRowFor(worker.log[1].first, worker.log[1].lat, worker.log[1].lon)
    /\ worker.log[2].first = NoneVal

(* C9: every coordinate in the cell of the coordinate just scored has the  *)
(* same features and the same point score under the loaded table and model.*)
C9_SameCellSameScore ==
    Handled("point") /\ resp.status = 200 =>
        \A la \in PointLats, lo \in PointLngs :
            make_cell(la, lo) = make_cell(req.body.lat.v, req.body.lng.v) =>
                /\ get_cell_features(grid_df, la, lo) = run.X[1]
                /\ safety_score_point(safety_model, grid_df,
                        PointBody("dict", Val("num", la), Val("num", lo))).resp = resp

C9_Witness ==
    /\ Handled("point")
    /\ resp.status = 200
    /\ run.X[1] # <<0, 0, 0>>
    /\ make_cell(req.body.lat.v, req.body.lng.v) # <<req.body.lat.v, req.body.lng.v>>

(* C10: the coordinates score_route goes on to score are the input itself  *)
(* when it has at most CAP elements, and otherwise exactly the elements at *)
(* indices 0, k, 2k, ... with k = floor(n / CAP), in order, the first      *)
(* being the input's first.                                                *)
C10_SampleIsStride ==
    Handled("route") /\ ModelAndTableLoaded /\ req.body.t = "dict"
      /\ req.body.coords.t = "list" /\ Len(req.body.coords.items) > 0 =>
        LET c == req.body.coords.items
            n == Len(c)
            s == run.sampled
            k == n \div CAP
        IN  IF n <= CAP THEN s = c
            ELSE /\ Len(s) = Cardinality({i \in 0..(n - 1) : i % k = 0})
                 /\ \A j \in 1..Len(s) : s[j] = c[(j - 1) * k + 1]
                 /\ s[1] = c[1]

C10_Witness ==
    /\ Handled("route")
    /\ resp.status = 200
    /\ Len(req.body.coords.items) > 2 * CAP
    /\ Len(run.sampled) < Len(req.body.coords.items)

\* a run of generate_grid_features.py is this step
BuildRuns == build'.seq # build.seq

(* C11: a run of generate_grid_features that cannot read one of the three  *)
(* raw datasets writes nothing: grid_features.csv, present or absent, is   *)
(* after the run what it was before it.                                    *)
C11_FailedReadLeavesTable ==
    [][BuildRuns /\ ~(raw.incident /\ raw.police /\ raw.surv) =>
          gridFile' = gridFile /\ ~build'.wrote]_vars

C11_Witness ==
    /\ build.ran
    /\ build.read.surv /\ build.read.incident /\ ~build.read.police
    /\ build.read.data = "S2"
    /\ build.before = GridFile(TRUE, TRUE, "T1")
    /\ gridFile = build.before
    /\ ~build.wrote

\* the model file is there and one of the two loaders reads it
ModelLoads(mf) == mf.exists /\ (mf.joblib \/ mf.pickle)

\* the table file is there and pd.read_csv raises on it
TableReadRaises(gf) == gf.exists /\ ~gf.readable

\* C12 at startup: the load_ml() of line 80
C12_Startup ==
    safety_model # NoneVal =>
        /\ ModelLoads(modelFile)
        /\ safety_model = modelFile.model
        /\ ~TableReadRaises(gridFile)

\* C12 at a reload: the load_ml() of reload_ml
C12_Reload ==
    pc = "idle" /\ pc' = "responded" /\ req'.kind = "reload" =>
        (safety_model' # NoneVal =>
            /\ ModelLoads(modelFile)
            /\ safety_model' = modelFile.model
            /\ ~TableReadRaises(gridFile))

(* C12: when load_ml returns, at startup or in a reload, safety_model is   *)
(* non-None only if this invocation loaded the model and its table read    *)
(* did not raise; a model loaded earlier does not survive a reload whose   *)
(* model file is missing or unloadable or whose table read raises.         *)
C12_ModelOnlyFromThisLoad == C12_Startup /\ [][C12_Reload]_vars

C12_Witness ==
    /\ Handled("reload")
    /\ resp.status = 500
    /\ safety_model = NoneVal
    /\ grid_df # NoneVal
    /\ ModelLoads(modelFile)
    /\ TableReadRaises(gridFile)

===========================================================================
